---------------------------- MODULE Spec2Model ----------------------------
(***************************************************************************)
(* The YARA rule collection pipeline of backend/yara_forgerules and        *)
(* backend/utils/yara_forgerules (run_collector.py): safe_rmtree_contents  *)
(* and retrieve_yara_rule_sets, in the variant that takes a logs sink      *)
(* ("permissive") and the variant that logs through the logging module     *)
(* ("strict").                                                             *)
(*                                                                         *)
(* Strings that the code splits, joins or compares are sequences of        *)
(* one-character strings.  A dict is a record; a key that is not in the    *)
(* dict holds the value Missing.                                           *)
(***************************************************************************)
EXTENDS Naturals, Sequences, FiniteSets, TLC

(***************************************************************************)
(* Bounds of the model.                                                    *)
(***************************************************************************)
MaxRepos == 2
MaxFiles == 3
\* the seconds that can pass while the runs last
MaxClock == 1

(***************************************************************************)
(* Program constants.                                                      *)
(***************************************************************************)
Retries == 5
EBUSY == 16
\* errno values other than EBUSY that a removal can fail with
OtherErrnos == {13}

Missing == <<"MISSING">>

(***************************************************************************)
(* String helpers: str.split, os.path.join, os.path.relpath, str.endswith. *)
(***************************************************************************)
RECURSIVE SplitAcc(_, _, _, _)
SplitAcc(s, sep, cur, acc) ==
    IF s = <<>> THEN Append(acc, cur)
    ELSE IF Head(s) = sep
         THEN SplitAcc(Tail(s), sep, <<>>, Append(acc, cur))
         ELSE SplitAcc(Tail(s), sep, Append(cur, Head(s)), acc)

Split(s, sep) == SplitAcc(s, sep, <<>>, <<>>)

StartsWith(s, pre) ==
    /\ Len(pre) <= Len(s)
    /\ SubSeq(s, 1, Len(pre)) = pre

EndsWith(s, suf) ==
    /\ Len(suf) <= Len(s)
    /\ SubSeq(s, Len(s) - Len(suf) + 1, Len(s)) = suf

PathJoin(a, b) ==
    IF b # <<>> /\ Head(b) = "/" THEN b
    ELSE IF a = <<>> \/ a[Len(a)] = "/" THEN a \o b
    ELSE a \o <<"/">> \o b

\* os.path.relpath(p, start) for a path p below the directory start
RelPath(p, start) ==
    IF p = start THEN <<".">>
    ELSE SubSeq(p, Len(start) + 2, Len(p))

(***************************************************************************)
(* File names and sentinel strings of the code.                            *)
(***************************************************************************)
LICENSE == <<"L", "I", "C", "E", "N", "S", "E">>
LICENSE_txt == LICENSE \o <<".", "t", "x", "t">>
LICENSE_md == LICENSE \o <<".", "m", "d">>
DotYar == <<".", "y", "a", "r">>
DotYara == <<".", "y", "a", "r", "a">>
NoLicenseSet ==
    <<"N", "O", " ", "L", "I", "C", "E", "N", "S", "E", " ", "S", "E", "T">>
NotAvailable == <<"N", "/", "A">>
Blob == <<"/", "b", "l", "o", "b", "/">>


(***************************************************************************)
(* Exceptions.  NoExc stands for "no exception was raised".                *)
(***************************************************************************)
NoExc == [type |-> "none", errno |-> 0]
OSErrorExc(n) == [type |-> "OSError", errno |-> n]
UnboundLocalErrorExc == [type |-> "UnboundLocalError", errno |-> 0]
GitErrorExc == [type |-> "GitError", errno |-> 0]
\* what open or read raise on a license file, on a rule file
LicenseReadExc == [type |-> "LicenseReadError", errno |-> 0]
RuleReadExc == [type |-> "RuleReadError", errno |-> 0]

(***************************************************************************)
(* A working copy on disk is the listing os.walk gives of it: a sequence   *)
(* of directories, the root first, each with its files in listing order.   *)
(* A file has a name, its text, and st: "ok", "malformed" (plyara rejects  *)
(* the text) or "unreadable" (open or read raises).                        *)
(***************************************************************************)
RootDir == <<>>
SubDir == <<"s", "u", "b">>
LibDir == <<"l", "i", "b">>

File(tag, dir, name, st) ==
    [name |-> name, st |-> st, text |-> <<tag>> \o PathJoin(dir, name)]

AbsDir(wc_root, dir) == IF dir = RootDir THEN wc_root ELSE PathJoin(wc_root, dir)

\* os.walk(top) over the working copy at wc_root: the directories at or
\* below top, as (root, files) pairs; nothing when top does not exist
OsWalk(top, wc_root, tree) ==
    LET Below(e) == \/ AbsDir(wc_root, e.dir) = top
                    \/ StartsWith(AbsDir(wc_root, e.dir), top \o <<"/">>)
        sel == SelectSeq(tree, Below)
    IN  [i \in 1..Len(sel) |->
            [root |-> AbsDir(wc_root, sel[i].dir), files |-> sel[i].files]]

(***************************************************************************)
(* The license search, lines 93-116 (utils) and 79-102.                    *)
(***************************************************************************)
IsLicenseName(file) ==
    file = LICENSE \/ file = LICENSE_txt \/ file = LICENSE_md

LicenseUrl(repo, url_path) ==
    repo.url \o Blob \o repo.commit_hash \o <<"/">> \o url_path

\* mutant of NestedGuard: the elif branch taken whatever was found before
NestedGuardAlways(repo) == TRUE

\* the guard of the elif branch: "license_url" not in repo
NestedGuard(repo) == repo.license_url = Missing

\* the inner loop over the files of one directory; a root-level match breaks
RECURSIVE LicenseFiles(_, _, _, _)
LicenseFiles(repo, repo_folder, root, files) ==
    IF files = <<>> THEN [repo |-> repo, exc |-> NoExc]
    ELSE
      LET file == Head(files)
          file_path == PathJoin(root, file.name)
          url_path == RelPath(file_path, repo_folder)
          withUrl == [repo EXCEPT !.license_url = LicenseUrl(repo, url_path)]
      IN  IF ~IsLicenseName(file.name)
          THEN LicenseFiles(repo, repo_folder, root, Tail(files))
          ELSE IF root = repo_folder
          THEN IF file.st = "unreadable"
               THEN [repo |-> withUrl, exc |-> LicenseReadExc]
               ELSE [repo |-> [withUrl EXCEPT !.license = file.text],
                     exc |-> NoExc]
          ELSE IF NestedGuard(repo)
          THEN IF file.st = "unreadable"
               THEN [repo |-> withUrl, exc |-> LicenseReadExc]
               ELSE LicenseFiles([withUrl EXCEPT !.license = file.text],
                                 repo_folder, root, Tail(files))
          ELSE LicenseFiles(repo, repo_folder, root, Tail(files))

RECURSIVE LicenseDirs(_, _, _)
LicenseDirs(repo, repo_folder, walk) ==
    IF walk = <<>> THEN [repo |-> repo, exc |-> NoExc]
    ELSE LET r == LicenseFiles(repo, repo_folder, Head(walk).root,
                               Head(walk).files)
         IN  IF r.exc # NoExc THEN r
             ELSE LicenseDirs(r.repo, repo_folder, Tail(walk))

FindLicense(repo, repo_folder, tree) ==
    LicenseDirs([repo EXCEPT !.license = NoLicenseSet,
                             !.license_url = NotAvailable],
                repo_folder, OsWalk(repo_folder, repo_folder, tree))

(***************************************************************************)
(* The rule file harvest, lines 118-146 (utils) and 104-151.               *)
(***************************************************************************)
IsRuleFile(file) == EndsWith(file, DotYar) \/ EndsWith(file, DotYara)

\* plyara.Plyara().parse_string(text): the parsed rules
ParseString(text) == <<"rules of">> \o text

ParseErrorLog(file_path) ==
    [level |-> "Error", msg |-> "parse", about |-> file_path]

\* mutant of ParseOne: no try around the parser, its error leaves the loop
ParseOneRaises(acc, file, file_path, repo_folder) ==
    IF file.st = "malformed"
    THEN [acc EXCEPT !.exc = [type |-> "ParseError", errno |-> 0]]
    ELSE [acc EXCEPT !.rule_sets =
              Append(@, [rules |-> ParseString(file.text),
                         file_path |-> RelPath(file_path, repo_folder)])]

\* the outcome of the try block for one rule file
ParseOne(acc, file, file_path, repo_folder) ==
    IF file.st = "malformed"
    THEN [acc EXCEPT !.logs = Append(@, ParseErrorLog(file_path))]
    ELSE [acc EXCEPT !.rule_sets =
              Append(@, [rules |-> ParseString(file.text),
                         file_path |-> RelPath(file_path, repo_folder)])]

RECURSIVE HarvestFiles(_, _, _, _)
HarvestFiles(acc, repo_folder, root, files) ==
    IF files = <<>> THEN acc
    ELSE
      LET file == Head(files)
          file_path == PathJoin(root, file.name)
      IN  IF ~IsRuleFile(file.name)
          THEN HarvestFiles(acc, repo_folder, root, Tail(files))
          ELSE IF file.st = "unreadable"
          THEN [acc EXCEPT !.exc = RuleReadExc]
          ELSE HarvestFiles(ParseOne(acc, file, file_path, repo_folder),
                            repo_folder, root, Tail(files))

RECURSIVE HarvestDirs(_, _, _)
HarvestDirs(acc, repo_folder, walk) ==
    IF walk = <<>> THEN acc
    ELSE LET r == HarvestFiles(acc, repo_folder, Head(walk).root,
                               Head(walk).files)
         IN  IF r.exc # NoExc THEN r
             ELSE HarvestDirs(r, repo_folder, Tail(walk))

WalkFolder(repo, repo_folder) ==
    IF repo.path # Missing THEN PathJoin(repo_folder, repo.path)
    ELSE repo_folder

Harvest(repo, repo_folder, tree) ==
    HarvestDirs([rule_sets |-> <<>>, logs |-> <<>>, exc |-> NoExc],
                repo_folder,
                OsWalk(WalkFolder(repo, repo_folder), repo_folder, tree))

(***************************************************************************)
(* Inputs: repository URLs, the config list entries, the remote            *)
(* repositories and the staging directory the run starts with.             *)
(***************************************************************************)
StagingDir == <<"/", "s">>
UrlHost == <<"h", "t", "t", "p", "s", ":", "/", "/", "h", "/">>
UrlAR == UrlHost \o <<"a", "/", "r", ".", "g", "i", "t">>
UrlARv2 == UrlHost \o <<"a", "/", "r", ".", "v", "2", ".", "g", "i", "t">>
UrlBQ == UrlHost \o <<"b", "/", "q">>
Urls == {UrlAR, UrlARv2, UrlBQ}
Branches == {"main", "dev"}

Config(name, url, branch, path) ==
    [name |-> name, url |-> url, branch |-> branch, author |-> "author",
     quality |-> "good", path |-> path,
     owner |-> Missing, repo |-> Missing, commit_hash |-> Missing,
     license |-> Missing, license_url |-> Missing]

RepoConfigs ==
    { Config("ar-main", UrlAR, "main", Missing),
      Config("ar-dev", UrlAR, "dev", Missing),
      Config("arv2", UrlARv2, "main", SubDir),
      Config("bq", UrlBQ, "main", Missing),
      Config("bq-lib", UrlBQ, "dev", LibDir) }

ConfigLists == UNION { [1..n -> RepoConfigs] : n \in 0..MaxRepos }

Yar(c) == <<c>> \o DotYar
Yara(c) == <<c>> \o DotYara
Readme == <<"R", "E", "A", "D", "M", "E">>

\* the head commit and the tree of each remote branch
RemoteHead(url, branch) ==
    (IF url = UrlAR THEN <<"a">> ELSE IF url = UrlARv2 THEN <<"v">> ELSE <<"b">>)
    \o (IF branch = "main" THEN <<"1">> ELSE <<"2">>)

RemoteTree(url, branch) ==
    LET t == RemoteHead(url, branch)[1] \o RemoteHead(url, branch)[2] IN
    IF url = UrlAR /\ branch = "main" THEN
        << [dir |-> RootDir, files |-> << File(t, RootDir, Yar("a"), "ok"),
                                          File(t, RootDir, LICENSE, "ok") >>],
           [dir |-> SubDir, files |-> << File(t, SubDir, LICENSE_md, "ok"),
                                         File(t, SubDir, Yara("b"), "malformed") >>] >>
    ELSE IF url = UrlAR THEN
        << [dir |-> RootDir, files |-> << File(t, RootDir, Readme, "ok") >>],
           [dir |-> LibDir, files |-> << File(t, LibDir, LICENSE_txt, "ok") >>],
           [dir |-> SubDir, files |-> << File(t, SubDir, Yar("c"), "ok") >>] >>
    ELSE IF url = UrlARv2 THEN
        << [dir |-> RootDir, files |-> << File(t, RootDir, LICENSE, "unreadable") >>],
           [dir |-> SubDir, files |-> << File(t, SubDir, Yar("a"), "ok") >>] >>
    ELSE IF branch = "main" THEN
        << [dir |-> RootDir, files |-> << File(t, RootDir, Yara("a"), "ok"),
                                          File(t, RootDir, Yar("b"), "malformed") >>] >>
    ELSE
        << [dir |-> RootDir, files |-> << File(t, RootDir, LICENSE_md, "ok") >>],
           [dir |-> LibDir, files |-> << File(t, LibDir, Yar("a"), "ok"),
                                         File(t, LibDir, Yar("d"), "unreadable") >>] >>

\* the remote repositories: those above, or every branch holding one given
\* tree
FixedRemote == [given |-> FALSE, tree |-> <<>>]
GivenRemote(tree) == [given |-> TRUE, tree |-> tree]

RemoteOf(r, url, branch) ==
    [head |-> RemoteHead(url, branch),
     tree |-> IF r.given THEN r.tree ELSE RemoteTree(url, branch)]

\* a working copy left in the staging directory by something before the run
StaleCommit == <<"o", "l", "d">>
StaleTree ==
    << [dir |-> RootDir, files |-> << File("old", RootDir, LICENSE_txt, "ok"),
                                      File("old", RootDir, Yar("z"), "ok") >>] >>
StaleWc ==
    [commit |-> StaleCommit, tree |-> StaleTree, st |-> "intact",
     top |-> <<"a">>, origin |-> <<UrlAR, "main">>]

Entry(name, kind) == [name |-> name, kind |-> kind]
NoWcs == [p \in {} |-> StaleWc]

InitialStagings ==
    { [exists |-> FALSE, entries |-> {}, wcs |-> NoWcs],
      [exists |-> TRUE, entries |-> {}, wcs |-> NoWcs],
      [exists |-> TRUE,
       entries |-> {Entry(<<"a">>, "dir"), Entry(<<"x">>, "file")},
       wcs |-> [p \in {PathJoin(PathJoin(StagingDir, <<"a">>), <<"r">>)} |-> StaleWc]],
      [exists |-> TRUE,
       entries |-> {Entry(<<"l">>, "link"), Entry(<<"p">>, "other")},
       wcs |-> NoWcs] }

(***************************************************************************)
(* State.                                                                  *)
(***************************************************************************)
VARIABLES
    variant,        \* "permissive" (logs sink) or "strict" (logging module)
    remote,         \* the remote repositories (see RemoteOf)
    repos,          \* yara_repos: the list of config dicts, mutated by the run
    stagingExists,  \* os.path.exists(repo_staging_dir)
    entries,        \* the direct entries of the staging directory
    wcs,            \* the working copies on disk, by path
    pc,             \* position of retrieve_yara_rule_sets
    idx,            \* index of the repository the loop is at
    attempt,        \* the sweeps safe_rmtree_contents made so far (its i); 0
                    \* outside the call
    catalog,        \* yara_rule_repo_sets
    logs,           \* the messages logged by this run
    exc,            \* the exception the run was aborted by
    clock,          \* datetime.datetime.now() when it was last read, in
                    \* whole seconds (strftime "%Y-%m-%d %H:%M:%S")
    hist,           \* what this run did so far (observation only)
    past            \* the outcomes of the earlier runs (observation only)

vars == <<variant, remote, repos, stagingExists, entries, wcs, pc, idx,
          attempt, catalog, logs, exc, clock, hist, past>>

Runs == {1, 2}

\* observation of the call of safe_rmtree_contents: sweeps is the number of
\* sweeps made when the loop ran out
NoReclaim ==
    [called |-> FALSE, plain |-> FALSE, sweeps |-> 0, onlyBusy |-> TRUE,
     outcome |-> "none", exc |-> NoExc, leftEmpty |-> FALSE,
     leftExisting |-> FALSE]

FreshHist == [reclaim |-> NoReclaim, syncs |-> <<>>, paths |-> {},
              startClean |-> FALSE, startIntact |-> FALSE]

Log(level, msg, about) == [level |-> level, msg |-> msg, about |-> about]

(***************************************************************************)
(* URL to working copy path, lines 54-57 and 60-61 (utils).                *)
(***************************************************************************)
Owner(url) == Split(url, "/")[4]
RepoName(url) == Split(Split(url, "/")[5], ".")[1]
RepoFolder(url) ==
    PathJoin(PathJoin(StagingDir, Owner(url)), RepoName(url))

\* mutant of NeedsClone: clone without looking at the disk
NeedsCloneAlways(folder, disk) == TRUE

\* the if of lines 60-62: the repository has not been cloned yet
NeedsClone(folder, disk) == folder \notin DOMAIN disk

\* mutant of OnSyncFailure: the strict variant skips the repository too
OnSyncFailureAlwaysContinue(v) == "continue"

\* what a failed clone or head-commit read does to the run
OnSyncFailure(v) == IF v = "permissive" THEN "continue" ELSE "raise"

\* mutant of ReclaimHandler: the handler logs and raises again
ReclaimHandlerReraise(v, e) ==
    IF e = NoExc THEN [pc |-> "loop", exc |-> NoExc, logs |-> <<>>]
    ELSE [pc |-> "aborted", exc |-> e,
          logs |-> << [level |-> "Error", msg |-> "cleanup failed",
                       about |-> <<"/", "s">>] >>]

\* the except of lines 43-48 around safe_rmtree_contents: e is what it
\* raised, NoExc when it returned
ReclaimHandler(v, e) ==
    [pc |-> "loop", exc |-> NoExc,
     logs |-> IF e = NoExc THEN <<>>
              ELSE << Log("Error", "cleanup failed", StagingDir) >>]

\* observation: the paths the run will look for working copies at (paths,
\* noted when the run begins), and the working copies the loop over the
\* repositories starts with
ConfiguredPaths == {RepoFolder(repos[i].url) : i \in DOMAIN repos}

AtLoopStart(h, disk) ==
    [h EXCEPT !.startClean = (h.paths \cap DOMAIN disk = {}),
              !.startIntact = \A p \in h.paths \cap DOMAIN disk :
                                  disk[p].st = "intact"]

\* mutant of FreshRepoSets: one list shared by all calls
SharedRepoSets(previous) == previous

\* line 35 (utils), line 42: yara_rule_repo_sets = [], whatever list an
\* earlier call built
FreshRepoSets(previous) == <<>>

(***************************************************************************)
(* retrieve_yara_rule_sets up to the call of safe_rmtree_contents.         *)
(***************************************************************************)
Begin ==
    /\ pc = "start"
    /\ catalog' = FreshRepoSets(catalog)
    /\ idx' = 1
    /\ exc' = NoExc
    /\ attempt' = 0
    /\ IF stagingExists
       THEN /\ pc' = "reclaim"
            /\ logs' = IF variant = "permissive"
                       THEN << Log("Info", "removing", StagingDir) >>
                       ELSE <<>>
            /\ hist' = [FreshHist EXCEPT
                          !.paths = ConfiguredPaths,
                          !.reclaim.called = TRUE,
                          !.reclaim.plain =
                              \A e \in entries : e.kind \in {"file", "link", "dir"}]
       ELSE /\ pc' = "loop"
            /\ logs' = <<>>
            /\ hist' = AtLoopStart([FreshHist EXCEPT !.paths = ConfiguredPaths],
                                    wcs)
    /\ UNCHANGED <<variant, remote, repos, stagingExists, entries, wcs,
                   clock, past>>

(***************************************************************************)
(* safe_rmtree_contents: one pass of the for loop.  The items listed       *)
(* before the failing one (done) are removed; an item that is neither a    *)
(* file, a link nor a directory is passed over.  shutil.rmtree removes the *)
(* content of a directory entry by entry, in the order the file system     *)
(* lists it, and stops at the first error: a working copy below the        *)
(* directory is left intact, removed, partial (some of its files gone, its *)
(* head commit still readable) or corrupt (no head commit to read).  The   *)
(* error is on one path, so at most one directory below the root of the    *)
(* working copy keeps some of its files and loses others.                  *)
(***************************************************************************)
TreeFiles(tree) ==
    UNION { {<<tree[i].dir, tree[i].files[j].name>> : j \in DOMAIN tree[i].files} :
              i \in DOMAIN tree }

\* the directories below the root that kept leaves with some files, not all
SplitDirs(tree, kept) ==
    {i \in DOMAIN tree :
        /\ tree[i].dir # RootDir
        /\ \E f \in DOMAIN tree[i].files : <<tree[i].dir, tree[i].files[f].name>> \in kept
        /\ \E f \in DOMAIN tree[i].files : <<tree[i].dir, tree[i].files[f].name>> \notin kept}

Partials(tree) ==
    {kept \in SUBSET TreeFiles(tree) :
        /\ kept # TreeFiles(tree)
        /\ Cardinality(SplitDirs(tree, kept)) <= 1}

\* the tree with the files of kept; a directory emptied is removed
Thinned(tree, kept) ==
    LET Files(i) == LET Kept(f) == <<tree[i].dir, f.name>> \in kept
                    IN  SelectSeq(tree[i].files, Kept)
        all == [i \in DOMAIN tree |-> [dir |-> tree[i].dir, files |-> Files(i)]]
        Stays(d) == d.dir = RootDir \/ d.files # <<>>
    IN  SelectSeq(all, Stays)

Damage(kind, kept) == [kind |-> kind, kept |-> kept]

Damages(wc) ==
    {Damage("intact", {}), Damage("removed", {}), Damage("corrupt", {})}
    \cup {Damage("partial", kept) : kept \in Partials(wc.tree)}

Damaged(wc, dmg) ==
    IF dmg.kind = "corrupt" THEN [wc EXCEPT !.st = "corrupt"]
    ELSE IF dmg.kind = "partial"
    THEN [wc EXCEPT !.st = IF @ = "corrupt" THEN @ ELSE "partial",
                    !.tree = Thinned(@, dmg.kept)]
    ELSE wc

Removable(e) == e.kind \in {"file", "link", "dir"}

\* the working copies below the staging entry e
WcsBelow(e) == {p \in DOMAIN wcs : e.kind = "dir" /\ wcs[p].top = e.name}

\* what the failed removal of the entry bad can do to each working copy
\* below it
DamagesBelow(bad) ==
    {dmg \in [WcsBelow(bad) -> UNION {Damages(wcs[p]) : p \in WcsBelow(bad)}] :
        \A p \in WcsBelow(bad) : dmg[p] \in Damages(wcs[p])}

RemoveEntries(done) == {e \in entries : ~(e \in done /\ Removable(e))}

WcsAfter(done, bad, dmg) ==
    LET gone == {e.name : e \in {d \in done : d.kind = "dir"}}
        keep == {p \in DOMAIN wcs :
                    /\ wcs[p].top \notin gone
                    /\ ~(p \in WcsBelow(bad) /\ dmg[p].kind = "removed")}
    IN  [p \in keep |->
            IF p \in WcsBelow(bad) THEN Damaged(wcs[p], dmg[p]) ELSE wcs[p]]

\* the caller's continuation once safe_rmtree_contents returned or raised e
Resume(e) ==
    LET h == ReclaimHandler(variant, e) IN
    /\ pc' = h.pc
    /\ exc' = h.exc
    /\ logs' = logs \o h.logs

SweepReturns ==
    /\ pc = "reclaim"
    /\ attempt < Retries
    /\ entries' = RemoveEntries(entries)
    /\ wcs' = WcsAfter(entries, Entry(<<>>, "none"), <<>>)
    /\ attempt' = 0
    /\ hist' = AtLoopStart([hist EXCEPT !.reclaim.outcome = "returned",
                                        !.reclaim.leftEmpty = (entries' = {}),
                                        !.reclaim.leftExisting = stagingExists],
                            wcs')
    /\ Resume(NoExc)
    /\ UNCHANGED <<variant, remote, repos, stagingExists, idx, catalog,
                   clock, past>>

SweepFails ==
    /\ pc = "reclaim"
    /\ attempt < Retries
    /\ \E done \in SUBSET {e \in entries : Removable(e)} :
       \E bad \in {e \in entries \ done : Removable(e)} :
       \E errno \in {EBUSY} \cup OtherErrnos :
       \E dmg \in DamagesBelow(bad) :
          /\ entries' = RemoveEntries(done)
          /\ wcs' = WcsAfter(done, bad, dmg)
          /\ IF errno = EBUSY
             THEN /\ attempt' = attempt + 1
                  /\ logs' = IF variant = "strict"
                             THEN Append(logs, Log("Warning", "busy", StagingDir))
                             ELSE logs
                  /\ UNCHANGED <<pc, exc, hist>>
             ELSE /\ Resume(OSErrorExc(errno))
                  /\ hist' = AtLoopStart(
                                [hist EXCEPT !.reclaim.onlyBusy = FALSE,
                                             !.reclaim.outcome = "raised",
                                             !.reclaim.exc = OSErrorExc(errno)],
                                wcs')
                  /\ attempt' = 0
    /\ UNCHANGED <<variant, remote, repos, stagingExists, idx, catalog,
                   clock, past>>

\* line 30 (utils), line 37: raise e after the loop.  The name e was
\* unbound when the except clause that bound it ended.
RaiseAfterLoop == UnboundLocalErrorExc

SweepExhausted ==
    /\ pc = "reclaim"
    /\ attempt = Retries
    /\ attempt' = 0
    /\ hist' = AtLoopStart([hist EXCEPT !.reclaim.outcome = "raised",
                                        !.reclaim.sweeps = attempt,
                                        !.reclaim.exc = RaiseAfterLoop],
                            wcs)
    /\ LET h == ReclaimHandler(variant, RaiseAfterLoop) IN
       /\ pc' = h.pc
       /\ exc' = h.exc
       /\ logs' = (IF variant = "strict"
                   THEN Append(logs, Log("Error", "gave up", StagingDir))
                   ELSE logs) \o h.logs
    /\ UNCHANGED <<variant, remote, repos, stagingExists, entries, wcs, idx,
                   catalog, clock, past>>

(***************************************************************************)
(* The loop over the repositories: synchronization, lines 51-89 (utils)    *)
(* and 53-75.  A clone fetches the head of the configured branch, or       *)
(* fails.  git clone makes the staging directory and the owner directory   *)
(* before it fetches and removes only the repository directory when it     *)
(* fails, so a failed clone leaves the owner directory behind (made),      *)
(* unless it failed before it could make it.  The head commit of a working *)
(* copy on disk can be read unless a failed removal left the copy corrupt. *)
(***************************************************************************)
SyncRecord(i, existed, clones, branch, ok, commit, disk) ==
    [idx |-> i, existed |-> existed, clones |-> clones, branch |-> branch,
     ok |-> ok, commit |-> commit, disk |-> disk]

SyncFailed(named, rec, before, what) ==
    /\ hist' = [hist EXCEPT !.syncs = Append(@, rec)]
    /\ repos' = [repos EXCEPT ![idx] = named]
    /\ IF OnSyncFailure(variant) = "continue"
       THEN /\ idx' = idx + 1
            /\ logs' = logs \o << Log("Info", "processing", named.name) >>
                             \o before
                             \o << Log("Error", what, named.url) >>
            /\ UNCHANGED <<pc, exc>>
       ELSE /\ pc' = "aborted"
            /\ exc' = GitErrorExc
            /\ logs' = Append(logs, Log("Info", "retrieving", named.name))
            /\ UNCHANGED idx

Synchronize ==
    /\ pc = "loop"
    /\ idx <= Len(repos)
    /\ \E repo \in {repos[idx]} :
       \E named \in {[repo EXCEPT !.owner = Owner(repo.url),
                                  !.repo = RepoName(repo.url)]} :
       \E folder \in {PathJoin(PathJoin(StagingDir, named.owner), named.repo)} :
       LET existed == folder \in DOMAIN wcs
           disk == IF existed THEN wcs[folder].commit ELSE Missing
       IN
       IF NeedsClone(folder, wcs)
       THEN \E ok \in BOOLEAN :
              IF ok
              THEN LET head == RemoteOf(remote, repo.url, repo.branch).head IN
                   /\ wcs' = [p \in DOMAIN wcs \cup {folder} |->
                                IF p = folder
                                THEN [commit |-> head,
                                      tree |-> RemoteOf(remote, repo.url, repo.branch).tree,
                                      st |-> "intact", top |-> named.owner,
                                      origin |-> <<repo.url, repo.branch>>]
                                ELSE wcs[p]]
                   /\ entries' = entries \cup {Entry(named.owner, "dir")}
                   /\ stagingExists' = TRUE
                   /\ repos' = [repos EXCEPT ![idx] =
                                   [named EXCEPT !.commit_hash = head]]
                   /\ hist' = [hist EXCEPT
                                 !.syncs = Append(@, SyncRecord(idx, existed, 1,
                                                     repo.branch, TRUE, head, disk))]
                   /\ logs' = IF variant = "permissive"
                              THEN logs \o << Log("Info", "processing", repo.name),
                                              Log("Info", "cloning", repo.url),
                                              Log("Info", "cloned", folder) >>
                              ELSE Append(logs, Log("Info", "retrieving", repo.name))
                   /\ pc' = "license"
                   /\ UNCHANGED <<idx, exc>>
              ELSE /\ SyncFailed(named,
                                 SyncRecord(idx, existed, 1, repo.branch, FALSE,
                                            Missing, disk),
                                 << Log("Info", "cloning", repo.url) >>,
                                 "clone failed")
                   /\ \E made \in BOOLEAN :
                        IF made
                        THEN /\ entries' = entries \cup {Entry(named.owner, "dir")}
                             /\ stagingExists' = TRUE
                        ELSE UNCHANGED <<entries, stagingExists>>
                   /\ UNCHANGED wcs
       ELSE IF wcs[folder].st # "corrupt"
       THEN /\ repos' = [repos EXCEPT ![idx] =
                            [named EXCEPT !.commit_hash = wcs[folder].commit]]
            /\ hist' = [hist EXCEPT
                          !.syncs = Append(@, SyncRecord(idx, existed, 0,
                                              repo.branch, TRUE,
                                              wcs[folder].commit, disk))]
            /\ logs' = IF variant = "permissive"
                       THEN logs \o << Log("Info", "processing", repo.name),
                                       Log("Info", "exists", folder) >>
                       ELSE Append(logs, Log("Info", "retrieving", repo.name))
            /\ pc' = "license"
            /\ UNCHANGED <<idx, exc, wcs, entries, stagingExists>>
       ELSE /\ SyncFailed(named,
                          SyncRecord(idx, existed, 0, repo.branch, FALSE,
                                     Missing, disk),
                          << >>,
                          "head commit failed")
            /\ UNCHANGED <<wcs, entries, stagingExists>>
    /\ UNCHANGED <<variant, remote, attempt, catalog, clock, past>>

(***************************************************************************)
(* The license search of the repository the loop is at.  Nothing catches   *)
(* what open or read raise: the exception leaves the function.             *)
(***************************************************************************)
CurrentFolder == PathJoin(PathJoin(StagingDir, repos[idx].owner), repos[idx].repo)

ExtractLicense ==
    /\ pc = "license"
    /\ \E r \in {FindLicense(repos[idx], CurrentFolder,
                             wcs[CurrentFolder].tree)} :
       /\ repos' = [repos EXCEPT ![idx] = r.repo]
       /\ IF r.exc = NoExc
          THEN /\ pc' = "harvest"
               /\ UNCHANGED exc
          ELSE /\ pc' = "aborted"
               /\ exc' = r.exc
    /\ UNCHANGED <<variant, remote, stagingExists, entries, wcs, idx, attempt,
                   catalog, logs, clock, hist, past>>

(***************************************************************************)
(* The rule file harvest and the catalog entry, lines 118-163 (utils) and  *)
(* 104-176.                                                                *)
(***************************************************************************)
CatalogEntry(v, repo, repo_folder, rule_sets, now) ==
    [name |-> repo.name, url |-> repo.url, author |-> repo.author,
     owner |-> repo.owner, repo |-> repo.repo, branch |-> repo.branch,
     rules_sets |-> rule_sets,
     quality |-> IF v = "strict" THEN repo.quality ELSE "MISSING",
     license |-> repo.license, license_url |-> repo.license_url,
     commit_hash |-> repo.commit_hash, retrieval_date |-> now,
     repo_path |-> repo_folder]

HarvestAndAppend ==
    /\ pc = "harvest"
    /\ \E h \in {Harvest(repos[idx], CurrentFolder, wcs[CurrentFolder].tree)} :
       IF h.exc = NoExc
       THEN /\ \E now \in clock..MaxClock :
                 /\ catalog' = Append(catalog,
                                      CatalogEntry(variant, repos[idx],
                                                   CurrentFolder, h.rule_sets,
                                                   now))
                 /\ clock' = now
            /\ logs' = IF variant = "strict"
                       THEN Append(logs \o h.logs,
                                   Log("Info", "retrieved", repos[idx].name))
                       ELSE logs \o h.logs
            /\ idx' = idx + 1
            /\ pc' = "loop"
            /\ UNCHANGED exc
       ELSE /\ pc' = "aborted"
            /\ exc' = h.exc
            /\ logs' = logs \o h.logs
            /\ UNCHANGED <<catalog, idx, clock>>
    /\ UNCHANGED <<variant, remote, repos, stagingExists, entries, wcs,
                   attempt, hist, past>>

\* line 166 (utils), line 179: return yara_rule_repo_sets
Return ==
    /\ pc = "loop"
    /\ idx > Len(repos)
    /\ pc' = "done"
    /\ UNCHANGED <<variant, remote, repos, stagingExists, entries, wcs, idx,
                   attempt, catalog, logs, exc, clock, hist, past>>

\* observation: whether each synchronization of the run succeeded
SyncOks(h) == [i \in 1..Len(h.syncs) |-> h.syncs[i].ok]

\* the caller runs the pipeline again, with the same config objects; the
\* locals of the finished call are gone
RunAgain ==
    /\ pc \in {"done", "aborted"}
    /\ Len(past) + 2 \in Runs
    /\ past' = Append(past, [pc |-> pc, catalog |-> catalog,
                             oks |-> SyncOks(hist),
                             startClean |-> hist.startClean,
                             startIntact |-> hist.startIntact])
    /\ pc' = "start"
    /\ idx' = 1
    /\ attempt' = 0
    /\ logs' = <<>>
    /\ exc' = NoExc
    /\ hist' = FreshHist
    /\ UNCHANGED <<variant, remote, repos, stagingExists, entries, wcs,
                   catalog, clock>>

(***************************************************************************)
(* One run of the pipeline.                                                *)
(***************************************************************************)
InitWith(lists, stagings, remotes) ==
    /\ variant \in {"permissive", "strict"}
    /\ remote \in remotes
    /\ repos \in lists
    /\ \E s \in stagings :
          /\ stagingExists = s.exists
          /\ entries = s.entries
          /\ wcs = s.wcs
    /\ pc = "start"
    /\ idx = 1
    /\ attempt = 0
    /\ catalog = <<>>
    /\ logs = <<>>
    /\ exc = NoExc
    /\ clock = 0
    /\ hist = FreshHist
    /\ past = <<>>

Init == InitWith(ConfigLists, InitialStagings, {FixedRemote})

Next ==
    \/ Begin
    \/ SweepReturns
    \/ SweepFails
    \/ SweepExhausted
    \/ Synchronize
    \/ ExtractLicense
    \/ HarvestAndAppend
    \/ Return

Spec == Init /\ [][Next]_vars

(***************************************************************************)
(* The pipeline run twice in succession.                                   *)
(***************************************************************************)
TwiceLists ==
    UNION { [1..n -> {c \in RepoConfigs : c.name \in {"ar-main", "bq"}}] :
              n \in 0..MaxRepos }

\* no staging directory yet, or one holding a working copy
TwiceStagings ==
    { [exists |-> FALSE, entries |-> {}, wcs |-> NoWcs],
      [exists |-> TRUE, entries |-> {Entry(<<"a">>, "dir")},
       wcs |-> [p \in {PathJoin(PathJoin(StagingDir, <<"a">>), <<"r">>)} |->
                   StaleWc]] }

InitTwice == InitWith(TwiceLists, TwiceStagings, {FixedRemote})

NextTwice == Next \/ RunAgain

SpecTwice == InitTwice /\ [][NextTwice]_vars

(***************************************************************************)
(* One run over one repository whose working copy is any tree of at most   *)
(* MaxFiles files in the root and two nested directories, in any order     *)
(* os.walk can list it: the root first, each directory's files together.   *)
(***************************************************************************)
WalkDirs == {RootDir, SubDir, LibDir}

WalkFiles(dir) ==
    { File("t", dir, LICENSE, "ok"),
      File("t", dir, LICENSE_md, "ok"),
      File("t", dir, LICENSE_txt, "unreadable"),
      File("t", dir, Yar("a"), "ok"),
      File("t", dir, Yara("b"), "malformed") }

WalkItems == UNION { {[dir |-> d, file |-> f] : f \in WalkFiles(d)} : d \in WalkDirs }

IsListing(flat) ==
    /\ \A i, j \in DOMAIN flat : i # j => flat[i] # flat[j]
    /\ \A i, j \in DOMAIN flat :
          i < j /\ flat[j].dir = RootDir => flat[i].dir = RootDir
    /\ \A i, j, k \in DOMAIN flat :
          i < j /\ j < k /\ flat[i].dir = flat[k].dir => flat[j].dir = flat[i].dir

FilesIn(flat, d) ==
    LET In(x) == x.dir = d
        sel == SelectSeq(flat, In)
    IN  [i \in 1..Len(sel) |-> sel[i].file]

RECURSIVE NestedDirs(_, _)
NestedDirs(flat, seen) ==
    IF flat = <<>> THEN <<>>
    ELSE IF Head(flat).dir \in seen THEN NestedDirs(Tail(flat), seen)
    ELSE <<Head(flat).dir>> \o NestedDirs(Tail(flat), seen \cup {Head(flat).dir})

TreeOfListing(flat) ==
    LET ds == <<RootDir>> \o NestedDirs(flat, {RootDir})
    IN  [i \in 1..Len(ds) |-> [dir |-> ds[i], files |-> FilesIn(flat, ds[i])]]

WalkTrees ==
    { TreeOfListing(flat) :
        flat \in {f \in UNION { [1..n -> WalkItems] : n \in 0..MaxFiles } :
                    IsListing(f)} }

WalkLists ==
    { <<c>> : c \in {r \in RepoConfigs : r.name \in {"ar-main", "arv2"}} }

InitWalk ==
    InitWith(WalkLists, {s \in InitialStagings : ~s.exists},
             {GivenRemote(t) : t \in WalkTrees})

NextWalk ==
    \/ Begin
    \/ Synchronize
    \/ ExtractLicense
    \/ HarvestAndAppend
    \/ Return

SpecWalk == InitWalk /\ [][NextWalk]_vars

(***************************************************************************)
(* Properties of one run (Spec).                                           *)
(***************************************************************************)
OkSyncs ==
    LET IsOk(r) == r.ok IN SelectSeq(hist.syncs, IsOk)

\* C1: the catalog holds one entry for each repository whose
\* synchronization succeeded, in configured order, and none for one whose
\* synchronization failed; the permissive variant goes on after a failed
\* synchronization, the strict variant is aborted by the first one and
\* returns no catalog.
C1_CatalogFollowsSyncOutcomes ==
    /\ pc \in {"loop", "done"} =>
          /\ Len(catalog) = Len(OkSyncs)
          /\ \A k \in DOMAIN catalog :
                /\ catalog[k].name = repos[OkSyncs[k].idx].name
                /\ catalog[k].url = repos[OkSyncs[k].idx].url
                /\ catalog[k].branch = repos[OkSyncs[k].idx].branch
          /\ \A k \in DOMAIN hist.syncs : hist.syncs[k].idx = k
          /\ Len(hist.syncs) = idx - 1
    /\ variant = "permissive" => exc # GitErrorExc
    /\ variant = "strict" =>
          \A k \in DOMAIN hist.syncs :
             ~hist.syncs[k].ok =>
                /\ k = Len(hist.syncs)
                /\ pc = "aborted"
                /\ exc = GitErrorExc

C1_Witness ==
    /\ variant = "permissive"
    /\ pc = "done"
    /\ Len(repos) = 2
    /\ ~hist.syncs[1].ok
    /\ hist.syncs[2].ok
    /\ Len(catalog) = 1
    /\ catalog[1].name = repos[2].name

\* C2: when the staging directory holds files, links and directories
\* only and no removal fails otherwise than busy, safe_rmtree_contents
\* either returns with the directory existing and empty, or raises the
\* OSError with errno 16 after exactly Retries sweeps.
C2_ReclaimEmptiesOrSurfacesBusy ==
    (/\ hist.reclaim.outcome # "none"
     /\ hist.reclaim.plain
     /\ hist.reclaim.onlyBusy) =>
        \/ /\ hist.reclaim.outcome = "returned"
           /\ hist.reclaim.leftEmpty
           /\ hist.reclaim.leftExisting
        \/ /\ hist.reclaim.outcome = "raised"
           /\ hist.reclaim.sweeps = Retries
           /\ hist.reclaim.exc = OSErrorExc(EBUSY)

\* C3, as claimed: once the cleanup has failed by exhausting its retries
\* the run is aborted and no repository is synchronized.
C3_CleanupExhaustionAborts ==
    (/\ hist.reclaim.outcome = "raised"
     /\ hist.reclaim.sweeps = Retries
     /\ hist.reclaim.onlyBusy) =>
        /\ pc = "aborted"
        /\ hist.syncs = <<>>

\* C3, amended: whatever safe_rmtree_contents raises is caught and logged
\* as one error; the run is not aborted by it and goes on to synchronize
\* the repositories, every one of them when the run returns.
C3_CleanupFailureIsLoggedNotFatal ==
    hist.reclaim.outcome = "raised" =>
        /\ pc \in {"loop", "license", "harvest", "done", "aborted"}
        /\ exc # hist.reclaim.exc
        /\ Cardinality({k \in DOMAIN logs :
                           /\ logs[k].level = "Error"
                           /\ logs[k].msg = "cleanup failed"}) = 1
        /\ pc = "done" => Len(hist.syncs) = Len(repos)

C3_Witness ==
    /\ hist.reclaim.outcome = "raised"
    /\ hist.reclaim.sweeps = Retries
    /\ hist.reclaim.onlyBusy
    /\ entries # {}
    /\ pc = "done"
    /\ Len(catalog) = 2
    /\ hist.syncs[1].existed

\* C4: a synchronization that finds a working copy at the repository's
\* path clones nothing and takes the head commit on disk; one that finds
\* none clones once, and takes the head commit of the configured branch.
C4_CloneOnlyWhenAbsent ==
    \A k \in DOMAIN hist.syncs :
       LET r == hist.syncs[k]
           cfg == repos[r.idx]
       IN  /\ r.existed => /\ r.clones = 0
                           /\ r.ok => r.commit = r.disk
           /\ ~r.existed => /\ r.clones = 1
                            /\ r.branch = cfg.branch
                            /\ r.ok => r.commit = RemoteHead(cfg.url, cfg.branch)
           /\ r.ok =>
                LET folder == PathJoin(PathJoin(StagingDir, cfg.owner), cfg.repo)
                IN  /\ cfg.commit_hash = r.commit
                    /\ folder \in DOMAIN wcs
                    /\ wcs[folder].commit = r.commit

C4_Witness ==
    /\ pc = "done"
    /\ Len(hist.syncs) = 2
    /\ ~hist.syncs[1].existed /\ hist.syncs[1].ok /\ hist.syncs[1].clones = 1
    /\ hist.syncs[2].existed /\ hist.syncs[2].ok /\ hist.syncs[2].clones = 0
    /\ repos[1].url = repos[2].url
    /\ repos[1].branch = repos[2].branch

\* C8: a license file that cannot be read does not abort the run.
C8_LicenseReadFailureIsNotFatal ==
    ~(pc = "aborted" /\ exc = LicenseReadExc)

\* C10: the working copy a catalog entry was made from is a clone of the
\* entry's own url and branch (or was in the staging directory before the
\* run), never one cloned for another configured repository.
C10_EntriesComeFromOwnClone ==
    \A k \in DOMAIN catalog :
       LET w == wcs[catalog[k].repo_path] IN
          \/ w.commit = StaleCommit
          \/ w.origin = <<catalog[k].url, catalog[k].branch>>

(***************************************************************************)
(* Properties of the license search and the harvest over any working      *)
(* copy (SpecWalk: one repository, its tree remote.tree).                  *)
(***************************************************************************)
LicenseNames == {LICENSE, LICENSE_txt, LICENSE_md}

RECURSIVE Flatten(_)
Flatten(tree) ==
    IF tree = <<>> THEN <<>>
    ELSE [i \in 1..Len(Head(tree).files) |->
             [dir |-> Head(tree).dir, file |-> Head(tree).files[i]]]
         \o Flatten(Tail(tree))

WalkedFiles == Flatten(remote.tree)

RootLicenses ==
    {k \in DOMAIN WalkedFiles :
        WalkedFiles[k].dir = RootDir /\ WalkedFiles[k].file.name \in LicenseNames}

NestedLicenses ==
    {k \in DOMAIN WalkedFiles :
        WalkedFiles[k].dir # RootDir /\ WalkedFiles[k].file.name \in LicenseNames}

FirstNestedLicense ==
    WalkedFiles[CHOOSE k \in NestedLicenses : \A j \in NestedLicenses : k <= j]

\* the license search of the repository is over and left this LicenseInfo
LicenseSearched == pc = "harvest" \/ catalog # <<>>
TheLicense ==
    IF catalog # <<>>
    THEN [text |-> catalog[1].license, url |-> catalog[1].license_url]
    ELSE [text |-> repos[1].license, url |-> repos[1].license_url]

UrlOfFile(x) ==
    repos[1].url \o Blob \o RemoteHead(repos[1].url, repos[1].branch)
    \o <<"/">> \o PathJoin(x.dir, x.file.name)

\* C5: when the working copy holds a recognized license file in its
\* root and others in nested directories, the license text and
\* license_url are those of a file of the root.
C5_RootLicenseWins ==
    (/\ remote.given
     /\ LicenseSearched
     /\ RootLicenses # {}
     /\ NestedLicenses # {}) =>
        \E k \in RootLicenses :
           /\ TheLicense.text = WalkedFiles[k].file.text
           /\ TheLicense.url = UrlOfFile(WalkedFiles[k])

C5_Witness ==
    /\ remote.given
    /\ catalog # <<>>
    /\ RootLicenses # {}
    /\ \E k \in NestedLicenses : WalkedFiles[k].file.st = "ok"
    /\ catalog[1].license = <<"t">> \o LICENSE_md
    /\ Cardinality(RootLicenses) = 1

\* C6: when the working copy holds no recognized license file in its root
\* but some in nested directories, the license text and license_url are
\* those of the first nested one the walk meets.
C6_FirstNestedLicenseKept ==
    (/\ remote.given
     /\ LicenseSearched
     /\ RootLicenses = {}
     /\ NestedLicenses # {}
     /\ FirstNestedLicense.file.st = "ok") =>
        /\ TheLicense.text = FirstNestedLicense.file.text
        /\ TheLicense.url = UrlOfFile(FirstNestedLicense)

\* the rule files below the walk folder: (1) parsed, (2) rejected
UnderWalkFolder(x) == repos[1].path = Missing \/ x.dir = repos[1].path
RuleNames == {Yar("a"), Yara("b")}
ParsedRuleFiles ==
    {k \in DOMAIN WalkedFiles :
        /\ UnderWalkFolder(WalkedFiles[k])
        /\ WalkedFiles[k].file.name \in RuleNames
        /\ WalkedFiles[k].file.st = "ok"}
RejectedRuleFiles ==
    {k \in DOMAIN WalkedFiles :
        /\ UnderWalkFolder(WalkedFiles[k])
        /\ WalkedFiles[k].file.name \in RuleNames
        /\ WalkedFiles[k].file.st = "malformed"}
ParseErrors ==
    {k \in DOMAIN logs : logs[k].level = "Error" /\ logs[k].msg = "parse"}

\* C7: the harvest is not aborted by a rule file the parser rejects: the
\* entry holds one rule set for each rule file that parses, with its path
\* relative to the working copy, and none for a rejected one, and each
\* rejected file is logged once.
C7_HarvestSkipsMalformed ==
    /\ exc.type # "ParseError"
    /\ (remote.given /\ catalog # <<>>) =>
          /\ Len(catalog[1].rules_sets) = Cardinality(ParsedRuleFiles)
          /\ {catalog[1].rules_sets[i].file_path :
                 i \in DOMAIN catalog[1].rules_sets}
             = {PathJoin(WalkedFiles[k].dir, WalkedFiles[k].file.name) :
                   k \in ParsedRuleFiles}
          /\ Cardinality(ParseErrors) = Cardinality(RejectedRuleFiles)
          /\ {logs[k].about : k \in ParseErrors}
             = {PathJoin(AbsDir(catalog[1].repo_path, WalkedFiles[k].dir),
                         WalkedFiles[k].file.name) : k \in RejectedRuleFiles}

C7_Witness ==
    /\ remote.given
    /\ catalog # <<>>
    /\ Cardinality(RejectedRuleFiles) = 1
    /\ Cardinality(ParsedRuleFiles) = 2
    /\ Len(catalog[1].rules_sets) = 2
    /\ WalkedFiles[1].file.st = "malformed"

(***************************************************************************)
(* Properties of two runs in succession (SpecTwice).                       *)
(***************************************************************************)
Undated(entry) == [entry EXCEPT !.retrieval_date = 0]

SameButDate(c1, c2) ==
    /\ Len(c1) = Len(c2)
    /\ \A k \in DOMAIN c1 : Undated(c1[k]) = Undated(c2[k])

BothRunsReturned ==
    /\ Len(past) = 1
    /\ past[1].pc = "done"
    /\ pc = "done"
    /\ past[1].oks = SyncOks(hist)

\* C9, as claimed: two runs in succession, each synchronization with the
\* same outcome in both, return catalogs equal in every field but
\* retrieval_date, whatever the staging directory held before the first.
C9_TwoRunsEqualCatalogs ==
    BothRunsReturned => SameButDate(past[1].catalog, catalog)

\* C9, amended: the same, provided the first run's loop over the
\* repositories started with no working copy at a configured path, and
\* the second run's with none that a failed cleanup had partly removed.
C9_TwoRunsEqualCatalogsFromCleanStart ==
    (BothRunsReturned /\ past[1].startClean /\ hist.startIntact) =>
        SameButDate(past[1].catalog, catalog)

C9_Witness ==
    /\ BothRunsReturned
    /\ past[1].startClean
    /\ hist.startIntact
    /\ hist.reclaim.outcome = "raised"
    /\ Len(catalog) = 2
    /\ catalog[1].url # catalog[2].url
    /\ hist.syncs[1].existed
    /\ ~hist.syncs[2].existed
    /\ catalog[1].retrieval_date # past[1].catalog[1].retrieval_date

=============================================================================
